---- MODULE Spec2Model ----
(***************************************************************************)
(* Model of the riset / sunproject command line front end (src/riset/cli.py *)
(* and its near-duplicate src/sunproject/cli.py): resource discovery,       *)
(* mode resolution through delegate scripts, the key=value config store,    *)
(* launch-agent cleanup and wallpaper image replacement.                    *)
(*                                                                          *)
(* Text (script output, config file content, captured messages) is a        *)
(* sequence of one-character strings, so that strip / lower / splitlines /  *)
(* split are computed as Python computes them.  A filesystem path is a      *)
(* sequence of path components.                                             *)
(***************************************************************************)
EXTENDS Integers, Sequences, FiniteSets, TLC

VARIABLES
    \* ---- process environment and filesystem seen by _find_dir
    envOverride,   \* value of RISET_<NAME>_DIR: NONE (unset) or a text path
    envHomebrew,   \* value of HOMEBREW_PREFIX: NONE (unset) or a text path
    fs,            \* kind of every candidate path: "absent" | "dir" | "file"
    \* ---- _find_dir as a call
    resName,       \* logical resource name asked for
    found,         \* what _find_dir returned (NONE = None)
    lpc,           \* position of the locate call: "call" | "returned"
    \* ---- one CLI invocation that needs the scripts directory (main)
    cmd,           \* subcommand: "background_change" | "morning" | "evening" | "post_install"
    argvMode,      \* --mode as given on the command line (text)
    mode,          \* args.mode (text; the handler overwrites it after compute_mode)
    scriptFiles,   \* names of the files present inside the resolved scripts directory
    sdir,          \* local sdir of the handler (NONE before / without resolution)
    pc,            \* position of the invocation
    invoked,       \* delegates run so far, in order: [script, code, out]
    rc,            \* value returned by main: <<>> while running, <<code>> once returned
    err,           \* diagnostic printed to the error stream ("none" if nothing)
    confirmed,     \* whether a success confirmation line was printed
    \* ---- config file and one writer / reader of it
    cfgFile,       \* content of CONFIG_PATH (NONE = file absent)
    cfgWritten,    \* mapping last handed to _write_config
    cfgRead,       \* mapping last returned by _read_config
    cpc,           \* position: "idle" | "written" | "read"
    \* ---- launch agents and cmd_cleanup
    loaded,        \* agents currently loaded in launchd
    plistKind,     \* per descriptor path: "absent" | "file" | "locked"
    cleanIdx,      \* index of the descriptor the loop is at
    errors,        \* the errors list of the running cleanup
    bootLog,       \* bootouts of the current run: [agent, code, stderr, stdout, recorded]
    runBare,       \* whether the current run began with no agent loaded and no descriptor file
    runs,          \* the finished cleanup runs, in order: [rc, errs, bare]
    \* ---- _replace_wallpaper_image
    srcKind,       \* kind of the source path: "absent" | "file" | "dir"
    srcData,       \* bytes of the source when it is a file
    destFile,      \* content of <assets-dir>/<name> per asset name ("absent" = no file)
    destBefore,    \* destFile as it was when the call began
    dirsMade,      \* directories created by the call
    target,        \* dest_filename
    apc,           \* position: "call" | "returned"
    arc,           \* value main returns: <<>> before, <<code>> after
    aerr,          \* diagnostic printed to the error stream ("none" if nothing)
    \* ---- concurrent location_change invocations on the config file
    procPc,        \* per invocation: "read" | "write" | "done"
    procArgs,      \* per invocation: [lat, lon], the texts str(args.lat), str(args.lon)
    procCfg,       \* per invocation: its local cfg dict
    fileBefore,    \* content of CONFIG_PATH before either invocation began
    writers        \* the invocations that have written the file, in order

NONE == <<"None">>

locVars   == <<envOverride, envHomebrew, fs, resName, found, lpc>>
bgVars    == <<cmd, argvMode, mode, scriptFiles, sdir, pc, invoked, rc, err, confirmed>>
cfgVars   == <<cfgFile, cfgWritten, cfgRead, cpc>>
cleanVars == <<loaded, plistKind, cleanIdx, errors, bootLog, runBare, runs>>
assetVars == <<srcKind, srcData, destFile, destBefore, dirsMade, target, apc, arc, aerr>>
raceVars  == <<procPc, procArgs, procCfg, fileBefore, writers>>
vars      == <<locVars, bgVars, cfgVars, cleanVars, assetVars, raceVars>>

(***************************************************************************)
(* Text helpers (Python str methods).                                       *)
(***************************************************************************)
Whitespace == {" ", "\n", "\t", "\r"}

RECURSIVE LStrip(_)
LStrip(s) ==
    IF s = <<>> THEN <<>>
    ELSE IF Head(s) \in Whitespace THEN LStrip(Tail(s)) ELSE s

RECURSIVE RStrip(_)
RStrip(s) ==
    IF s = <<>> THEN <<>>
    ELSE IF s[Len(s)] \in Whitespace THEN RStrip(SubSeq(s, 1, Len(s) - 1)) ELSE s

\* str.strip()
Strip(s) == RStrip(LStrip(s))

UpperLetters == <<"A", "D", "G", "H", "I", "N", "S", "T", "U", "Y">>

LowerLetters == <<"a", "d", "g", "h", "i", "n", "s", "t", "u", "y">>

\* str.lower() of one character (of the letters that occur in the model)
LowerChar(c) ==
    IF \E i \in DOMAIN UpperLetters : UpperLetters[i] = c
    THEN LowerLetters[CHOOSE i \in DOMAIN UpperLetters : UpperLetters[i] = c]
    ELSE c

\* str.lower()
Lower(s) == [i \in 1..Len(s) |-> LowerChar(s[i])]

DAY == <<"d", "a", "y">>

NIGHT == <<"n", "i", "g", "h", "t">>

AUTO == <<"a", "u", "t", "o">>

(***************************************************************************)
(* Paths & discovery helpers.                                               *)
(***************************************************************************)
APP_NAME == "riset"

\* Path.home()
HOME == <<"/home/user">>

\* Path(__file__).resolve().parents[2]
RepoRoot == <<"/repo">>

\* Python truthiness of os.environ.get(KEY): unset and "" are both falsy
IsSet(v) == v # NONE /\ v # <<>>

\* Path.expanduser(): a leading "~" component becomes the home directory
ExpandUser(p) == IF p # <<>> /\ Head(p) = "~" THEN HOME \o Tail(p) ELSE p

\* Path.exists(): true of directories and of regular files alike
Exists(fsys, p) == p \in DOMAIN fsys /\ fsys[p] # "absent"

\* _homebrew_share_candidates()
HomebrewShareCandidates(hb) ==
    (IF IsSet(hb) THEN << hb \o <<"share", APP_NAME>> >> ELSE <<>>)
    \o << <<"/opt/homebrew", "share", APP_NAME>>,
          <<"/usr/local", "share", APP_NAME>> >>

\* the for loop of _find_dir over the share candidates
RECURSIVE FirstShare(_, _, _)
FirstShare(bases, name, fsys) ==
    IF bases = <<>> THEN NONE
    ELSE IF Exists(fsys, Head(bases) \o <<name>>) THEN Head(bases) \o <<name>>
    ELSE FirstShare(Tail(bases), name, fsys)

\* a plausible slip: the source tree is consulted before the override
FindDirRepoFirst(name, ovr, hb, fsys) ==
    IF Exists(fsys, RepoRoot \o <<name>>) THEN RepoRoot \o <<name>>
    ELSE IF IsSet(ovr) /\ Exists(fsys, ExpandUser(ovr)) THEN ExpandUser(ovr)
    ELSE FirstShare(HomebrewShareCandidates(hb), name, fsys)

\* _find_dir(name)
FindDir(name, ovr, hb, fsys) ==
    IF IsSet(ovr) /\ Exists(fsys, ExpandUser(ovr)) THEN ExpandUser(ovr)
    ELSE IF Exists(fsys, RepoRoot \o <<name>>) THEN RepoRoot \o <<name>>
    ELSE FirstShare(HomebrewShareCandidates(hb), name, fsys)

(***************************************************************************)
(* Values the variable groups hold while another component is exercised.    *)
(***************************************************************************)
LocIdle ==
    /\ envOverride = NONE /\ envHomebrew = NONE /\ fs = <<>>
    /\ resName = "scripts" /\ found = NONE /\ lpc = "idle"

BgIdle ==
    /\ cmd = "none" /\ argvMode = <<>> /\ mode = <<>> /\ scriptFiles = {} /\ sdir = NONE
    /\ pc = "idle" /\ invoked = <<>> /\ rc = <<>> /\ err = "none"
    /\ confirmed = FALSE

CfgIdle ==
    /\ cfgFile = NONE /\ cfgWritten = <<>> /\ cfgRead = <<>> /\ cpc = "off"

CleanIdle ==
    /\ loaded = {} /\ plistKind = <<>> /\ cleanIdx = 0 /\ errors = <<>>
    /\ bootLog = <<>> /\ runBare = FALSE /\ runs = <<>>

AssetIdle ==
    /\ srcKind = "absent" /\ srcData = "none" /\ destFile = <<>> /\ destBefore = <<>>
    /\ dirsMade = {} /\ target = "none" /\ apc = "idle" /\ arc = <<>> /\ aerr = "none"

RaceIdle ==
    /\ procPc = <<>> /\ procArgs = <<>> /\ procCfg = <<>>
    /\ fileBefore = NONE /\ writers = <<>>

(***************************************************************************)
(* ResourceLocator: _find_dir called once in an arbitrary environment.      *)
(***************************************************************************)
ResourceNames == {"scripts", "assets"}

Kinds == {"absent", "dir", "file"}

\* values the override variable may hold: unset, empty, absolute, home-relative
OverrideValues == {NONE, <<>>, <<"/ovr">>, <<"~", "ovr">>}

\* values HOMEBREW_PREFIX may hold: unset, empty, a custom prefix, a default one
HomebrewValues == {NONE, <<>>, <<"/custom">>, <<"/opt/homebrew">>}

\* every path _find_dir(name) can look at in these environments
CandidatePaths(name) ==
    {ExpandUser(o) : o \in {v \in OverrideValues : IsSet(v)}}
    \cup {RepoRoot \o <<name>>}
    \cup {h \o <<"share", APP_NAME, name>> : h \in {v \in HomebrewValues : IsSet(v)}}
    \cup {<<"/opt/homebrew", "share", APP_NAME, name>>,
          <<"/usr/local", "share", APP_NAME, name>>}

LocInit ==
    /\ resName \in ResourceNames
    /\ envOverride \in OverrideValues
    /\ envHomebrew \in HomebrewValues
    /\ fs \in [CandidatePaths(resName) -> Kinds]
    /\ found = NONE
    /\ lpc = "call"
    /\ BgIdle /\ CfgIdle /\ CleanIdle /\ AssetIdle /\ RaceIdle

\* the call _find_dir(resName)
LocFind ==
    /\ lpc = "call"
    /\ found' = FindDir(resName, envOverride, envHomebrew, fs)
    /\ lpc' = "returned"
    /\ UNCHANGED <<envOverride, envHomebrew, fs, resName>>
    /\ UNCHANGED <<bgVars, cfgVars, cleanVars, assetVars, raceVars>>

LocNext == LocFind

SpecLocate == LocInit /\ [][LocNext]_vars

\* the candidates of the search in their declared order: override path,
\* <install-root>/<name>, $HOMEBREW_PREFIX/share/<app>/<name> when set,
\* /opt/homebrew/share/<app>/<name>, /usr/local/share/<app>/<name>
DeclaredOrder ==
    (IF IsSet(envOverride) THEN << ExpandUser(envOverride) >> ELSE <<>>)
    \o << RepoRoot \o <<resName>> >>
    \o (IF IsSet(envHomebrew)
          THEN << envHomebrew \o <<"share", APP_NAME, resName>> >> ELSE <<>>)
    \o << <<"/opt/homebrew", "share", APP_NAME, resName>>,
          <<"/usr/local", "share", APP_NAME, resName>> >>

\* C2: _find_dir returns the first existing candidate of the declared order:
\* an existing override directory is returned whatever else exists, a later
\* candidate is returned only when every earlier one is missing, and None is
\* returned exactly when no candidate exists.
C2_FirstExistingCandidate ==
    lpc = "returned" =>
        LET c == DeclaredOrder IN
        /\ \A i \in 1..Len(c) :
              (Exists(fs, c[i]) /\ \A j \in 1..(i - 1) : ~Exists(fs, c[j]))
                  => found = c[i]
        /\ (IsSet(envOverride) /\ ExpandUser(envOverride) \in DOMAIN fs
              /\ fs[ExpandUser(envOverride)] = "dir")
              => found = ExpandUser(envOverride)
        /\ (found = NONE) <=> (\A i \in 1..Len(c) : ~Exists(fs, c[i]))

\* the last candidate is returned past a set but missing override, a missing
\* source tree and two missing share prefixes
C2_Witness ==
    /\ lpc = "returned"
    /\ IsSet(envOverride) /\ envHomebrew = <<"/custom">>
    /\ found = <<"/usr/local", "share", APP_NAME, resName>>
    /\ fs[RepoRoot \o <<resName>>] = "absent"

\* C11: whatever _find_dir returns exists as a directory when it is returned;
\* a candidate that exists as a regular file is never returned.
C11_ReturnedIsDirectory ==
    (lpc = "returned" /\ found # NONE) => fs[found] = "dir"

(***************************************************************************)
(* ModeResolver and the other commands that need the scripts directory,     *)
(* each run as one invocation of main().                                    *)
(***************************************************************************)
TIMES == "wallpaper_times.sh"

COMPUTE == "compute_mode.sh"

MORNING == "wallpaper_morning.sh"

EVENING == "wallpaper_evening.sh"

ScriptNames == {TIMES, COMPUTE, MORNING, EVENING}

\* largest exit code a delegate script is let to return
MaxCode == 2

\* what compute_mode.sh may write to its standard output
ModeOutputs ==
    { <<"d", "a", "y">>,
      <<"n", "i", "g", "h", "t", "\n">>,
      <<"N", "I", "G", "H", "T", "\n">>,
      <<" ", "D", "a", "y", " ", "\n">>,
      <<"\t", "n", "i", "g", "h", "t", "\r", "\n">>,
      <<"d", "u", "s", "k">>,
      <<>>,
      <<"\n">>,
      <<"d", " ", "a", "y">>,
      <<"d", "a", "y", " ", "n", "i", "g", "h", "t">>,
      <<"D", "A", "Y", "S">> }

\* subprocess.run(...) of a delegate: any exit code, any captured stdout
DelegateResults(script) ==
    [code : 0..MaxCode, out : IF script = COMPUTE THEN ModeOutputs ELSE {<<>>}]

\* (sdir / name).exists(): a file of the resolved directory
ScriptExists(name) ==
    /\ sdir \in DOMAIN fs /\ fs[sdir] = "dir"
    /\ name \in scriptFiles

\* a plausible slip: the exit code of the failed delegate is dropped
DieCodeAlwaysOne(returncode) == 1

\* _run_or_die: raise SystemExit(res.returncode or 1)
DieCode(returncode) == IF returncode # 0 THEN returncode ELSE 1

\* main: except SystemExit as e: return int(e.code)
OnSystemExit(code) == code

\* main: except Exception: print("Error: ..."); return 1
OnException == 1

\* a plausible slip: the decision delegate is tried before the unified one
AutoStrategyDecisionFirst(hasTimes, hasCompute) ==
    IF hasCompute THEN "decision" ELSE IF hasTimes THEN "unified" ELSE "none"

\* cmd_background_change, mode auto: which delegate the if-chain picks
AutoStrategy(hasTimes, hasCompute) ==
    IF hasTimes THEN "unified" ELSE IF hasCompute THEN "decision" ELSE "none"

\* a plausible slip: the output is trimmed but not lowercased
ResolveModeNoLower(out) == Strip(Strip(out))

\* _run_or_die(...) returns res.stdout.strip(); the handler adds .strip().lower()
ResolveMode(out) == Lower(Strip(Strip(out)))

\* a plausible slip: any non-empty output passes the validation
ValidModeNonEmpty(m) == m # <<>>

\* mode in {"day", "night"}
ValidMode(m) == m \in {DAY, NIGHT}

\* the if / elif / else that maps a concrete mode to its script
SetterScript(m) ==
    IF m = DAY THEN MORNING ELSE IF m = NIGHT THEN EVENING ELSE "none"

Commands == {"background_change", "morning", "evening", "post_install"}

\* the scripts directory is looked for at the override and in the source tree
BgPaths == {<<"/ovr">>, RepoRoot \o <<"scripts">>}

BgInit ==
    /\ cmd \in Commands
    /\ argvMode \in (IF cmd = "background_change" THEN {DAY, NIGHT, AUTO} ELSE {<<>>})
    /\ mode = argvMode
    /\ envOverride \in {NONE, <<"/ovr">>}
    /\ envHomebrew = NONE
    /\ fs \in [BgPaths -> Kinds]
    /\ scriptFiles \in SUBSET ScriptNames
    /\ resName = "scripts" /\ found = NONE /\ lpc = "idle"
    /\ sdir = NONE /\ pc = "start" /\ invoked = <<>> /\ rc = <<>>
    /\ err = "none" /\ confirmed = FALSE
    /\ CfgIdle /\ CleanIdle /\ AssetIdle /\ RaceIdle

BgFrame ==
    UNCHANGED <<locVars, cmd, argvMode, scriptFiles, cfgVars, cleanVars, assetVars, raceVars>>

\* the handler returns n, or raises, and main returns
Finish(code, diagnostic, success) ==
    /\ rc' = <<code>>
    /\ err' = diagnostic
    /\ confirmed' = success
    /\ pc' = "done"

\* _run_or_die([script]) as the last statement before a success line
RunOrDieThenConfirm(script) ==
    \E res \in DelegateResults(script) :
        /\ invoked' = Append(invoked, [script |-> script, code |-> res.code, out |-> res.out])
        /\ IF res.code # 0
           THEN Finish(OnSystemExit(DieCode(res.code)), "DelegateFailed", FALSE)
           ELSE Finish(0, "none", TRUE)

\* sdir = _scripts_dir(), the first statement of every one of these handlers
ScriptsDir ==
    /\ pc = "start"
    /\ LET p == FindDir("scripts", envOverride, envHomebrew, fs) IN
       IF p = NONE
       THEN /\ Finish(OnException, "ResourceNotFound", FALSE)
            /\ UNCHANGED sdir
       ELSE /\ sdir' = p
            /\ pc' = cmd
            /\ UNCHANGED <<rc, err, confirmed>>
    /\ UNCHANGED <<mode, invoked>>
    /\ BgFrame

\* mode auto, wallpaper_times.sh exists: run it and return 0
BgAutoUnified ==
    /\ pc = "background_change" /\ mode = AUTO
    /\ AutoStrategy(ScriptExists(TIMES), ScriptExists(COMPUTE)) = "unified"
    /\ RunOrDieThenConfirm(TIMES)
    /\ UNCHANGED <<mode, sdir>>
    /\ BgFrame

\* mode auto, only compute_mode.sh exists: run it and take its output as the mode
BgAutoDecision ==
    /\ pc = "background_change" /\ mode = AUTO
    /\ AutoStrategy(ScriptExists(TIMES), ScriptExists(COMPUTE)) = "decision"
    /\ \E res \in DelegateResults(COMPUTE) :
        /\ invoked' = Append(invoked, [script |-> COMPUTE, code |-> res.code, out |-> res.out])
        /\ IF res.code # 0
           THEN /\ Finish(OnSystemExit(DieCode(res.code)), "DelegateFailed", FALSE)
                /\ UNCHANGED mode
           ELSE IF ~ValidMode(ResolveMode(res.out))
           THEN /\ Finish(2, "InvalidModeOutput", FALSE)
                /\ UNCHANGED mode
           ELSE /\ mode' = ResolveMode(res.out)
                /\ UNCHANGED <<pc, rc, err, confirmed>>
    /\ UNCHANGED sdir
    /\ BgFrame

\* mode auto, neither delegate exists
BgAutoNone ==
    /\ pc = "background_change" /\ mode = AUTO
    /\ AutoStrategy(ScriptExists(TIMES), ScriptExists(COMPUTE)) = "none"
    /\ Finish(2, "NoAutoStrategy", FALSE)
    /\ UNCHANGED <<mode, sdir, invoked>>
    /\ BgFrame

\* a concrete mode is known: pick its script, check it exists, run it
BgApply ==
    /\ pc = "background_change" /\ mode # AUTO
    /\ IF SetterScript(mode) = "none"
       THEN Finish(2, "InvalidMode", FALSE) /\ UNCHANGED invoked
       ELSE IF ~ScriptExists(SetterScript(mode))
       THEN Finish(2, "ScriptNotFound", FALSE) /\ UNCHANGED invoked
       ELSE RunOrDieThenConfirm(SetterScript(mode))
    /\ UNCHANGED <<mode, sdir>>
    /\ BgFrame

\* cmd_morning
Morning ==
    /\ pc = "morning"
    /\ IF ~ScriptExists(MORNING)
       THEN Finish(2, "ScriptNotFound", FALSE) /\ UNCHANGED invoked
       ELSE RunOrDieThenConfirm(MORNING)
    /\ UNCHANGED <<mode, sdir>>
    /\ BgFrame

\* cmd_evening
Evening ==
    /\ pc = "evening"
    /\ IF ~ScriptExists(EVENING)
       THEN Finish(2, "ScriptNotFound", FALSE) /\ UNCHANGED invoked
       ELSE RunOrDieThenConfirm(EVENING)
    /\ UNCHANGED <<mode, sdir>>
    /\ BgFrame

\* cmd_post_install: bash wallpaper_times.sh, its exit code returned as is
PostInstall ==
    /\ pc = "post_install"
    /\ IF ~ScriptExists(TIMES)
       THEN Finish(2, "ScriptNotFound", FALSE) /\ UNCHANGED invoked
       ELSE \E res \in DelegateResults(TIMES) :
            /\ invoked' = Append(invoked, [script |-> TIMES, code |-> res.code, out |-> res.out])
            /\ IF res.code # 0
               THEN Finish(res.code, "DelegateFailed", FALSE)
               ELSE Finish(0, "none", TRUE)
    /\ UNCHANGED <<mode, sdir>>
    /\ BgFrame

BgNext ==
    \/ ScriptsDir
    \/ BgAutoUnified
    \/ BgAutoDecision
    \/ BgAutoNone
    \/ BgApply
    \/ Morning
    \/ Evening
    \/ PostInstall

SpecMain == BgInit /\ [][BgNext]_vars

\* the trimmed, lowercased text of a delegate's output
Trimmed(out) == Lower(Strip(out))

\* the setter script that belongs to a mode
SetterOf(m) == IF m = DAY THEN MORNING ELSE EVENING

\* background_change --mode auto ran compute_mode.sh (and not the unified
\* delegate, which is missing), and compute_mode.sh exited 0
DecisionSucceeded ==
    /\ cmd = "background_change" /\ argvMode = AUTO
    /\ ~ScriptExists(TIMES) /\ ScriptExists(COMPUTE)
    /\ Len(invoked) >= 1
    /\ invoked[1].script = COMPUTE /\ invoked[1].code = 0

\* C1: with mode auto and wallpaper_times.sh present, it is the only delegate
\* ever invoked (compute_mode and the two setters never run, present or not),
\* it is invoked, and when it exits 0 the command returns 0.
C1_UnifiedAlone ==
    (cmd = "background_change" /\ argvMode = AUTO /\ ScriptExists(TIMES)) =>
        /\ \A i \in DOMAIN invoked : invoked[i].script = TIMES
        /\ pc = "done" =>
              /\ Len(invoked) = 1
              /\ invoked[1].code = 0 => (rc = <<0>> /\ confirmed)

\* all four scripts exist, the unified one ran alone and the command returned 0
C1_Witness ==
    /\ cmd = "background_change" /\ argvMode = AUTO /\ pc = "done"
    /\ ScriptExists(TIMES) /\ scriptFiles = ScriptNames
    /\ invoked = << [script |-> TIMES, code |-> 0, out |-> <<>>] >>
    /\ rc = <<0>>

\* C3 as stated: whenever compute_mode.sh exits 0 with output that trims and
\* lowercases to day or night, the command resolves to that mode and ends
\* having invoked the corresponding setter script right after compute_mode.sh.
C3_SetterAlwaysInvoked ==
    (DecisionSucceeded /\ pc = "done" /\ Trimmed(invoked[1].out) \in {DAY, NIGHT}) =>
        /\ mode = Trimmed(invoked[1].out)
        /\ Len(invoked) = 2
        /\ invoked[2].script = SetterOf(Trimmed(invoked[1].out))

\* C3 amended: whenever compute_mode.sh exits 0 with output that trims and
\* lowercases to day or night, the command resolves to that mode; a setter
\* script runs only as the second delegate, after compute_mode.sh, and only
\* the one of the resolved mode; it does run when it exists in the scripts
\* directory, and otherwise the command returns 2 (ScriptNotFound) having
\* invoked no setter.
C3_SetterInvokedWhenPresent ==
    (DecisionSucceeded /\ Trimmed(invoked[1].out) \in {DAY, NIGHT}) =>
        LET m == Trimmed(invoked[1].out) IN
        /\ mode = m
        /\ \A i \in DOMAIN invoked :
              i > 1 => (i = 2 /\ invoked[i].script = SetterOf(m))
        /\ pc = "done" =>
              IF ScriptExists(SetterOf(m))
              THEN Len(invoked) = 2 /\ invoked[2].script = SetterOf(m)
              ELSE Len(invoked) = 1 /\ rc = <<2>> /\ err = "ScriptNotFound"

\* compute_mode.sh printed "NIGHT\n" and wallpaper_evening.sh ran after it,
\* with wallpaper_morning.sh present and left alone
C3_Witness ==
    /\ DecisionSucceeded /\ pc = "done"
    /\ invoked[1].out = <<"N", "I", "G", "H", "T", "\n">>
    /\ MORNING \in scriptFiles
    /\ Len(invoked) = 2 /\ invoked[2].script = EVENING
    /\ mode = NIGHT

\* C4: when compute_mode.sh exits 0 with output that trims and lowercases to
\* anything but day or night, the command has ended with InvalidModeOutput,
\* exit code 2, and neither setter script was invoked.
C4_InvalidModeOutput ==
    (DecisionSucceeded /\ Trimmed(invoked[1].out) \notin {DAY, NIGHT}) =>
        /\ pc = "done"
        /\ err = "InvalidModeOutput"
        /\ rc = <<2>>
        /\ Len(invoked) = 1
        /\ ~confirmed

\* compute_mode.sh printed "dusk" while both setter scripts exist
C4_Witness ==
    /\ DecisionSucceeded /\ pc = "done"
    /\ invoked[1].out = <<"d", "u", "s", "k">>
    /\ {MORNING, EVENING} \subseteq scriptFiles
    /\ rc = <<2>>

\* C5: when no candidate of the scripts directory exists, every command that
\* needs scripts ends with ResourceNotFound, main returns 2 and no delegate
\* was invoked.
C5_ResourceNotFoundIsTwo ==
    (pc = "done" /\ \A p \in DOMAIN fs : fs[p] = "absent") =>
        /\ err = "ResourceNotFound"
        /\ rc = <<2>>
        /\ invoked = <<>>

\* C7: in background_change a delegate that exits with a non-zero code c is
\* the last delegate invoked, the command has ended with exit code c, and no
\* success confirmation was printed.
C7_FatalOnNonzero ==
    cmd = "background_change" =>
        \A i \in DOMAIN invoked :
            invoked[i].code # 0 =>
                /\ i = Len(invoked)
                /\ pc = "done"
                /\ rc = << invoked[i].code >>
                /\ ~confirmed

\* compute_mode.sh exited 2 with both setter scripts present: nothing else ran
C7_Witness ==
    /\ cmd = "background_change" /\ pc = "done"
    /\ {MORNING, EVENING} \subseteq scriptFiles
    /\ Len(invoked) = 1
    /\ invoked[1].script = COMPUTE /\ invoked[1].code = 2
    /\ rc = <<2>>

(***************************************************************************)
(* ConfigStore: the key=value file at CONFIG_PATH.  A mapping (a Python     *)
(* dict) is the sequence of its <<key, value>> items in insertion order.    *)
(***************************************************************************)
\* str.splitlines(): "\n", "\r" and "\r\n" end a line; no empty last line
RECURSIVE SplitLinesFrom(_, _, _)
SplitLinesFrom(rest, cur, acc) ==
    IF rest = <<>> THEN (IF cur = <<>> THEN acc ELSE Append(acc, cur))
    ELSE IF Head(rest) = "\r" /\ Len(rest) >= 2 /\ rest[2] = "\n"
    THEN SplitLinesFrom(Tail(Tail(rest)), <<>>, Append(acc, cur))
    ELSE IF Head(rest) \in {"\n", "\r"}
    THEN SplitLinesFrom(Tail(rest), <<>>, Append(acc, cur))
    ELSE SplitLinesFrom(Tail(rest), Append(cur, Head(rest)), acc)

SplitLines(text) == SplitLinesFrom(text, <<>>, <<>>)

\* "=" in line, and where the first one is (0 when there is none)
FirstEq(line) ==
    IF \E i \in DOMAIN line : line[i] = "="
    THEN CHOOSE i \in DOMAIN line : line[i] = "=" /\ \A j \in 1..(i - 1) : line[j] # "="
    ELSE 0

\* data[k] = v on a dict: an existing key keeps its place
DictSet(data, k, v) ==
    IF \E i \in DOMAIN data : data[i][1] = k
    THEN [i \in DOMAIN data |-> IF data[i][1] = k THEN <<k, v>> ELSE data[i]]
    ELSE Append(data, <<k, v>>)

\* the body of the for loop of _read_config
RECURSIVE ParseLines(_, _)
ParseLines(lines, data) ==
    IF lines = <<>> THEN data
    ELSE LET line == Strip(Head(lines))
             e    == FirstEq(line)
         IN IF line = <<>> \/ Head(line) = "#" \/ e = 0
            THEN ParseLines(Tail(lines), data)
            ELSE ParseLines(Tail(lines),
                            DictSet(data,
                                    Strip(SubSeq(line, 1, e - 1)),
                                    Strip(SubSeq(line, e + 1, Len(line)))))

\* _read_config() on a file content (NONE: the file does not exist)
ReadConfig(file) == IF file = NONE THEN <<>> ELSE ParseLines(SplitLines(file), <<>>)

\* "# riset config"
Header == <<"#", " ", "r", "i", "s", "e", "t", " ", "c", "o", "n", "f", "i", "g">>

\* "\n".join(lines) + "\n" with lines = [header] + [f"{k}={v}" ...]
RECURSIVE JoinItems(_)
JoinItems(cfg) ==
    IF cfg = <<>> THEN <<>>
    ELSE Head(cfg)[1] \o <<"=">> \o Head(cfg)[2] \o <<"\n">> \o JoinItems(Tail(cfg))

Serialize(cfg) == Header \o <<"\n">> \o JoinItems(cfg)

\* a plausible slip: the file is opened for appending
WriteTextAppend(old, text) == IF old = NONE THEN text ELSE old \o text

\* CONFIG_PATH.write_text(text): the file's content afterwards
WriteText(old, text) == text

\* _write_config(cfg) on a file content
WriteConfig(old, cfg) == WriteText(old, Serialize(cfg))

LAT == <<"l", "a", "t">>

LON == <<"l", "o", "n">>

\* decimal-degree texts, as str(float) prints them
DegreeTexts ==
    { <<"4", "1", ".", "0">>, <<"-", "8", ".", "5">>, <<"0", ".", "0">>,
      <<"2", "8", ".", "9", "7", "8", "4">> }

\* texts that are no decimal degrees: padded, spanning lines
OtherTexts ==
    { <<" ", "1", ".", "0">>, <<"1", "\n", "x", "=", "2">> }

\* the mappings handed to _write_config: any of the keys lat and lon, in
\* either order, with any of the texts
WrittenMappings ==
    {<<>>}
    \cup { << <<k, v>> >> : k \in {LAT, LON}, v \in DegreeTexts \cup OtherTexts }
    \cup { << <<LAT, v>>, <<LON, w>> >> : v \in DegreeTexts \cup OtherTexts, w \in DegreeTexts }
    \cup { << <<LON, v>>, <<LAT, w>> >> : v \in DegreeTexts, w \in DegreeTexts }

\* contents the file may have before: absent, empty, an earlier config, one
\* with a further key and a malformed line, one without a final newline, one
\* with an empty key, a key with a blank inside and a key given twice
PreviousFiles ==
    { NONE,
      <<>>,
      Serialize(<< <<LAT, <<"9", ".", "9">> >>, <<LON, <<"7", ".", "7">> >> >>),
      Header \o <<"\n", "t", "z", "=", "u", "t", "c", "\n", "j", "u", "n", "k", "\n">>
          \o <<"l", "a", "t", " ", "=", " ", "5", ".", "5", "\r", "\n">>,
      <<"l", "o", "n", "=", "3", ".", "3">>,
      <<"=", "5", "\n", "a", " ", "b", " ", "=", " ", "c", "=", "d", "\n">>
          \o <<"t", "z", "=", "x", "\n", "t", "z", "=", "y", "\n">> }

CfgInit ==
    /\ cfgFile \in PreviousFiles
    /\ cfgWritten = <<>>
    /\ cfgRead = <<>>
    /\ cpc = "idle"
    /\ LocIdle /\ BgIdle /\ CleanIdle /\ AssetIdle /\ RaceIdle

\* _write_config(m)
CfgWrite ==
    /\ cpc = "idle"
    /\ \E m \in WrittenMappings :
        /\ cfgFile' = WriteConfig(cfgFile, m)
        /\ cfgWritten' = m
    /\ cpc' = "written"
    /\ UNCHANGED cfgRead
    /\ UNCHANGED <<locVars, bgVars, cleanVars, assetVars, raceVars>>

\* _read_config(), before or after the write
CfgRead ==
    /\ cpc \in {"idle", "written"}
    /\ cfgRead' = ReadConfig(cfgFile)
    /\ cpc' = IF cpc = "idle" THEN "read_old" ELSE "read"
    /\ UNCHANGED <<cfgFile, cfgWritten>>
    /\ UNCHANGED <<locVars, bgVars, cleanVars, assetVars, raceVars>>

CfgNext == CfgWrite \/ CfgRead

SpecConfig == CfgInit /\ [][CfgNext]_vars

\* the set of items of a mapping
Items(d) == {d[i] : i \in DOMAIN d}

Digits == {"0", "1", "2", "3", "4", "5", "6", "7", "8", "9"}

\* a decimal-degree text: digits, at most a sign in front, a decimal point
IsDegreeText(t) ==
    /\ t # <<>>
    /\ \A i \in DOMAIN t : t[i] \in Digits \cup {".", "-"}
    /\ \E i \in DOMAIN t : t[i] \in Digits

IsDegreeMapping(d) ==
    \A i \in DOMAIN d : d[i][1] \in {LAT, LON} /\ IsDegreeText(d[i][2])

\* C8: after _write_config(m) with m a mapping of lat / lon to decimal-degree
\* texts, _read_config() returns the same keys with the same values, whatever
\* the file held before.
C8_RoundTrip ==
    (cpc = "read" /\ IsDegreeMapping(cfgWritten)) =>
        /\ Items(cfgRead) = Items(cfgWritten)
        /\ Len(cfgRead) = Len(cfgWritten)

\* lat and lon written over a file that held another key and a malformed line
C8_Witness ==
    /\ cpc = "read"
    /\ cfgWritten = << <<LAT, <<"4", "1", ".", "0">> >>, <<LON, <<"-", "8", ".", "5">> >> >>
    /\ cfgRead = cfgWritten
    /\ cfgFile = Serialize(cfgWritten)

(***************************************************************************)
(* AgentCleaner: cmd_cleanup over the two launch-agent descriptors.  A      *)
(* captured message is a sequence of fragments; "needle in msg" is true     *)
(* when a fragment is the needle.                                           *)
(***************************************************************************)
\* _launch_agent_paths(), by the name of the daily transition
Agents == <<"sunrise", "sunset">>

\* 36 = "Operation now in progress"
IN_PROGRESS == 36

NO_PROCESS == "No such process"

NO_FILE == "No such file or directory"

\* number of cleanup runs made one after the other
MaxRuns == 2

Contains(msg, needle) == \E i \in DOMAIN msg : msg[i] = needle

\* msg = stderr.strip() or stdout.strip()
CapturedMessage(stderr, stdout) ==
    IF Strip(stderr) # <<>> THEN Strip(stderr) ELSE Strip(stdout)

\* a plausible slip: only "No such process" is taken as harmless
BootoutIsErrorStrict(code, stderr, stdout) ==
    /\ code \notin {0, IN_PROGRESS}
    /\ LET msg == CapturedMessage(stderr, stdout) IN
       msg # <<>> /\ ~Contains(msg, NO_PROCESS)

\* whether the loop body appends an error for a bootout result
BootoutIsError(code, stderr, stdout) ==
    /\ code \notin {0, IN_PROGRESS}
    /\ LET msg == CapturedMessage(stderr, stdout) IN
       msg # <<>> /\ ~Contains(msg, NO_PROCESS) /\ ~Contains(msg, NO_FILE)

\* launchctl bootout of an agent that is not loaded: it fails, or reports the
\* operation in progress, and its output says that the process or the file
\* is missing (on stderr, or on stdout with at most blank stderr)
AbsentResults ==
    [code : (1..MaxCode) \cup {IN_PROGRESS},
     stderr : { <<"Boot-out failed: 3: ", NO_PROCESS, "\n">>,
                <<"plist: ", NO_FILE, "\n", "Boot-out failed: 5: Input/output error", "\n">> },
     stdout : { <<>> }]
    \cup
    [code : 1..MaxCode, stderr : { <<>>, <<"\n">> }, stdout : { <<NO_PROCESS, "\n">> }]

\* launchctl bootout of a loaded agent that fails: any other exit code, with
\* a diagnostic on stderr, or on stdout, or none at all
FailedResults ==
    [code : 1..MaxCode,
     stderr : { <<>>, <<"\n">>, <<"Boot-out failed: 1: Operation not permitted", "\n">> },
     stdout : { <<>>, <<"Boot-out failed: 5: Input/output error", "\n">> }]

\* launchctl bootout of a loaded agent that works, at once or in progress
UnloadResults == [code : {0, IN_PROGRESS}, stderr : { <<>> }, stdout : { <<>> }]

\* plist.unlink(): whether an error is appended ("absent" raises
\* FileNotFoundError, which is skipped; "locked" raises another OSError)
UnlinkError(kind) == kind = "locked"

\* plist.unlink(): the descriptor afterwards
UnlinkKind(kind) == IF kind = "file" THEN "absent" ELSE kind

CleanInit ==
    /\ loaded \in SUBSET {Agents[i] : i \in DOMAIN Agents}
    /\ plistKind \in [{Agents[i] : i \in DOMAIN Agents} -> {"absent", "file", "locked"}]
    /\ cleanIdx = 0
    /\ errors = <<>>
    /\ bootLog = <<>>
    /\ runBare = FALSE
    /\ runs = <<>>
    /\ LocIdle /\ BgIdle /\ CfgIdle /\ AssetIdle /\ RaceIdle

CleanFrame == UNCHANGED <<locVars, bgVars, cfgVars, assetVars, raceVars>>

\* a fresh `cleanup` invocation: plists, uid, errors = []
CleanStart ==
    /\ cleanIdx = 0
    /\ Len(runs) < MaxRuns
    /\ cleanIdx' = 1
    /\ errors' = <<>>
    /\ bootLog' = <<>>
    /\ runBare' = (loaded = {} /\ \A a \in DOMAIN plistKind : plistKind[a] = "absent")
    /\ UNCHANGED <<loaded, plistKind, runs>>
    /\ CleanFrame

\* one pass of the for loop: bootout, classify, unlink
CleanIter ==
    /\ cleanIdx \in DOMAIN Agents
    /\ LET a == Agents[cleanIdx] IN
       \E res \in (IF a \in loaded THEN UnloadResults \cup FailedResults ELSE AbsentResults) :
           LET bootErr == BootoutIsError(res.code, res.stderr, res.stdout)
               rmErr   == UnlinkError(plistKind[a])
           IN
           /\ loaded' = IF res.code \in {0, IN_PROGRESS} THEN loaded \ {a} ELSE loaded
           /\ plistKind' = [plistKind EXCEPT ![a] = UnlinkKind(@)]
           /\ errors' = errors
                  \o (IF bootErr THEN << <<"bootout", a>> >> ELSE <<>>)
                  \o (IF rmErr THEN << <<"remove", a>> >> ELSE <<>>)
           /\ bootLog' = Append(bootLog,
                  [agent |-> a, code |-> res.code, stderr |-> res.stderr,
                   stdout |-> res.stdout, recorded |-> bootErr])
    /\ cleanIdx' = cleanIdx + 1
    /\ UNCHANGED <<runBare, runs>>
    /\ CleanFrame

\* after the loop: return 1 if errors else 0
CleanReturn ==
    /\ cleanIdx = Len(Agents) + 1
    /\ runs' = Append(runs, [rc |-> IF errors # <<>> THEN 1 ELSE 0,
                             errs |-> Len(errors), bare |-> runBare])
    /\ cleanIdx' = 0
    /\ UNCHANGED <<loaded, plistKind, errors, bootLog, runBare>>
    /\ CleanFrame

CleanNext == CleanStart \/ CleanIter \/ CleanReturn

SpecCleanup == CleanInit /\ [][CleanNext]_vars

\* C6: a cleanup run that begins with no agent loaded and no descriptor file
\* records no error and returns 0, the first time and every time after it.
C6_BareCleanupSucceeds ==
    /\ (runBare /\ cleanIdx # 0) => errors = <<>>
    /\ \A k \in DOMAIN runs : runs[k].bare => (runs[k].rc = 0 /\ runs[k].errs = 0)

\* two runs in succession on a bare system, the second one having seen both
\* bootouts fail
C6_Witness ==
    /\ Len(runs) = 2 /\ runs[1].bare /\ runs[2].bare
    /\ runs[1].rc = 0 /\ runs[2].rc = 0
    /\ cleanIdx = 0 /\ Len(bootLog) = 2
    /\ bootLog[1].code = 1 /\ Contains(bootLog[1].stderr, NO_FILE)
    /\ bootLog[2].code = 2 /\ Contains(bootLog[2].stderr, NO_PROCESS)

\* the captured message of a bootout says the resource was already absent
IndicatesAbsence(b) ==
    \/ Contains(CapturedMessage(b.stderr, b.stdout), NO_PROCESS)
    \/ Contains(CapturedMessage(b.stderr, b.stdout), NO_FILE)

\* C10: a bootout records an error exactly when its exit code is neither 0
\* nor 36 and its captured message does not indicate absence (an empty
\* message included), and a run with such a bootout returns 1.
C10_NonzeroRecordsError ==
    \A i \in DOMAIN bootLog :
        LET b == bootLog[i] IN
        /\ b.recorded <=> (b.code \notin {0, IN_PROGRESS} /\ ~IndicatesAbsence(b))
        /\ (b.recorded /\ cleanIdx = 0) => runs[Len(runs)].rc = 1

(***************************************************************************)
(* AssetReplacer: _replace_wallpaper_image, called through main by the      *)
(* `day` and `night` commands.                                              *)
(***************************************************************************)
DAY_ASSET == "morning.jpg"

NIGHT_ASSET == "evening.jpg"

AssetNames == {DAY_ASSET, NIGHT_ASSET}

\* the assets directory is looked for at the override and in the source tree
AssetPaths == {<<"/ovr">>, RepoRoot \o <<"assets">>}

\* dest_path.parent.mkdir(parents=True, exist_ok=True): "made" when the
\* directory was missing, "raise" (FileExistsError) when the path is a file
Mkdir(kind) ==
    IF kind = "absent" THEN "made" ELSE IF kind = "file" THEN "raise" ELSE "kept"

\* a plausible slip: the destination is opened for writing before the source
\* is looked at
ReplaceOutcomeTouchFirst(assets, assetsKind, sKind, copyOk) ==
    IF assets = NONE
    THEN [rc |-> 2, diag |-> "AssetsDirNotFound", mk |-> "kept", write |-> "no"]
    ELSE IF sKind = "absent"
    THEN [rc |-> 2, diag |-> "SourceNotFound", mk |-> Mkdir(assetsKind), write |-> "empty"]
    ELSE IF sKind # "file"
    THEN [rc |-> 2, diag |-> "NotAFile", mk |-> "kept", write |-> "no"]
    ELSE IF Mkdir(assetsKind) = "raise"
    THEN [rc |-> OnException, diag |-> "Error", mk |-> "raise", write |-> "no"]
    ELSE IF ~copyOk
    THEN [rc |-> 2, diag |-> "CopyFailed", mk |-> Mkdir(assetsKind), write |-> "no"]
    ELSE [rc |-> 0, diag |-> "none", mk |-> Mkdir(assetsKind), write |-> "copy"]

\* _replace_wallpaper_image: exit code, diagnostic, what mkdir did and
\* whether the destination was written
ReplaceOutcome(assets, assetsKind, sKind, copyOk) ==
    IF assets = NONE
    THEN [rc |-> 2, diag |-> "AssetsDirNotFound", mk |-> "kept", write |-> "no"]
    ELSE IF sKind = "absent"
    THEN [rc |-> 2, diag |-> "SourceNotFound", mk |-> "kept", write |-> "no"]
    ELSE IF sKind # "file"
    THEN [rc |-> 2, diag |-> "NotAFile", mk |-> "kept", write |-> "no"]
    ELSE IF Mkdir(assetsKind) = "raise"
    THEN [rc |-> OnException, diag |-> "Error", mk |-> "raise", write |-> "no"]
    ELSE IF ~copyOk
    THEN [rc |-> 2, diag |-> "CopyFailed", mk |-> Mkdir(assetsKind), write |-> "no"]
    ELSE [rc |-> 0, diag |-> "none", mk |-> Mkdir(assetsKind), write |-> "copy"]

AssetInit ==
    /\ resName = "assets" /\ found = NONE /\ lpc = "idle"
    /\ envOverride \in {NONE, <<"/ovr">>}
    /\ envHomebrew = NONE
    /\ fs \in [AssetPaths -> Kinds]
    /\ srcKind \in Kinds
    /\ srcData \in {"imgA", "imgB"}
    /\ destFile \in [AssetNames -> {"absent", "old"}]
    /\ destBefore = destFile
    /\ dirsMade = {}
    /\ target \in AssetNames
    /\ apc = "call" /\ arc = <<>> /\ aerr = "none"
    /\ BgIdle /\ CfgIdle /\ CleanIdle /\ RaceIdle

\* cmd_day_image / cmd_night_image: _replace_wallpaper_image(args.image, target, label)
AssetReplace ==
    /\ apc = "call"
    /\ \E copyOk \in BOOLEAN :
        LET assets == FindDir("assets", envOverride, envHomebrew, fs)
            o      == ReplaceOutcome(assets, IF assets = NONE THEN "absent" ELSE fs[assets],
                                     srcKind, copyOk)
        IN
        /\ found' = assets
        /\ arc' = <<o.rc>>
        /\ aerr' = o.diag
        /\ dirsMade' = IF o.mk = "made" THEN dirsMade \cup {assets} ELSE dirsMade
        /\ destFile' = IF o.write = "copy" THEN [destFile EXCEPT ![target] = srcData]
                       ELSE IF o.write = "empty" THEN [destFile EXCEPT ![target] = "empty"]
                       ELSE destFile
    /\ apc' = "returned"
    /\ UNCHANGED <<envOverride, envHomebrew, fs, resName, lpc>>
    /\ UNCHANGED <<srcKind, srcData, destBefore, target>>
    /\ UNCHANGED <<bgVars, cfgVars, cleanVars, raceVars>>

AssetNext == AssetReplace

SpecAsset == AssetInit /\ [][AssetNext]_vars

\* C9: a call with a source path that does not exist returns 2 and leaves the
\* filesystem as it was: the destination is neither created nor modified and
\* no directory is created.
C9_MissingSourceNoEffect ==
    (apc = "returned" /\ srcKind = "absent") =>
        /\ arc = <<2>>
        /\ destFile = destBefore
        /\ dirsMade = {}

\* the assets directory was found, the source is missing, the old destination
\* is still there
C9_Witness ==
    /\ apc = "returned" /\ srcKind = "absent"
    /\ found # NONE /\ fs[found] = "dir"
    /\ destFile[target] = "old"
    /\ aerr = "SourceNotFound" /\ arc = <<2>>

(***************************************************************************)
(* Two location_change invocations, each a process of its own, on the same  *)
(* config file.  Nothing locks the file: a read of the whole file and a     *)
(* wholesale write of it are the steps that interleave.                     *)
(***************************************************************************)
Procs == {"A", "B"}

\* a plausible slip: the handler starts from an empty dict, not from the file
LocationUpdateFresh(cfg, lat, lon) == << <<LAT, lat>>, <<LON, lon>> >>

\* cmd_location_change: cfg["lat"] = str(args.lat); cfg["lon"] = str(args.lon)
LocationUpdate(cfg, lat, lon) == DictSet(DictSet(cfg, LAT, lat), LON, lon)

RaceInit ==
    /\ cfgFile \in PreviousFiles
    /\ fileBefore = cfgFile
    /\ procPc = [p \in Procs |-> "read"]
    /\ procArgs \in [Procs -> [lat : DegreeTexts, lon : DegreeTexts]]
    /\ procCfg = [p \in Procs |-> <<>>]
    /\ writers = <<>>
    /\ cfgWritten = <<>> /\ cfgRead = <<>> /\ cpc = "off"
    /\ LocIdle /\ BgIdle /\ CleanIdle /\ AssetIdle

RaceFrame ==
    UNCHANGED <<locVars, bgVars, cleanVars, assetVars, cfgWritten, cfgRead, cpc,
                procArgs, fileBefore>>

\* cfg = _read_config()
LocChangeRead(p) ==
    /\ procPc[p] = "read"
    /\ procCfg' = [procCfg EXCEPT ![p] = ReadConfig(cfgFile)]
    /\ procPc' = [procPc EXCEPT ![p] = "write"]
    /\ UNCHANGED <<cfgFile, writers>>
    /\ RaceFrame

\* the two assignments, then _write_config(cfg), and return 0
LocChangeWrite(p) ==
    /\ procPc[p] = "write"
    /\ LET cfg == LocationUpdate(procCfg[p], procArgs[p].lat, procArgs[p].lon) IN
        /\ procCfg' = [procCfg EXCEPT ![p] = cfg]
        /\ cfgFile' = WriteConfig(cfgFile, cfg)
    /\ writers' = Append(writers, p)
    /\ procPc' = [procPc EXCEPT ![p] = "done"]
    /\ RaceFrame

RaceNext == \E p \in Procs : LocChangeRead(p) \/ LocChangeWrite(p)

SpecRace == RaceInit /\ [][RaceNext]_vars

\* the keys of a mapping
Keys(d) == {d[i][1] : i \in DOMAIN d}

\* the values a mapping holds for a key
ValuesOf(d, k) == {d[i][2] : i \in {j \in DOMAIN d : d[j][1] = k}}

\* C12: once both invocations have finished, the file holds the lat and the
\* lon of the invocation that wrote last, both of them, and every other key
\* the file held before either began is still a key of it.
C12_LastWriterWins ==
    (\A p \in Procs : procPc[p] = "done") =>
        LET now  == ReadConfig(cfgFile)
            last == writers[Len(writers)]
        IN
        /\ ValuesOf(now, LAT) = {procArgs[last].lat}
        /\ ValuesOf(now, LON) = {procArgs[last].lon}
        /\ Keys(ReadConfig(fileBefore)) \subseteq Keys(now)

\* both read the old file (which holds a further key) before either wrote;
\* A wrote first, B last, with different coordinates
C12_Witness ==
    /\ \A p \in Procs : procPc[p] = "done"
    /\ writers = <<"A", "B">>
    /\ Keys(ReadConfig(fileBefore)) \ {LAT, LON} # {}
    /\ procArgs["A"].lat # procArgs["B"].lat
    /\ procArgs["A"].lon # procArgs["B"].lon
    /\ ValuesOf(procCfg["A"], LAT) = {procArgs["A"].lat}
    /\ ValuesOf(procCfg["B"], LAT) = {procArgs["B"].lat}
    /\ Len(procCfg["B"]) = Len(ReadConfig(fileBefore)) + 1

====
